---- MODULE Spec2Model ----
(***************************************************************************)
(* Database / Table of pyFramework.py as a state machine.                  *)
(*                                                                         *)
(* The state is one Database object (its connection handle, its registry   *)
(* _tables and the table accessors set on it with setattr) and the MySQL   *)
(* server it talks to (the live schema).  The class files    *)
(* under tables/ are only ever written, never read back, so they are kept  *)
(* as an effect of each call (like the statements it sends), not as state. *)
(* Every public method is one action; a method that calls                  *)
(* other methods (reconnect, add_column -> remake_class, everything ->     *)
(* sql_query) is modelled by composing the operators of the callees.       *)
(*                                                                         *)
(* Python values returned by sql_query are tagged records                  *)
(*   [shape |-> "None" | "list" | "dict" | "scalar", rows |-> <<...>>]     *)
(* so that the result-shape collapsing of sql_query (a one-row result is   *)
(* returned as a bare mapping, a one-row one-column result as the bare     *)
(* cell) is visible to the callers that iterate over the result.          *)
(***************************************************************************)
EXTENDS Integers, Sequences, FiniteSets, TLC

VARIABLES
    schema,   \* the server: table name -> sequence of column descriptors (<<>> = no such table)
    db,       \* Database._db: "None" or "conn" (an open driver connection)
    tables,   \* Database._tables: PyNone or a list of Table
    attrs,    \* table accessors set on the Database: name -> <<>> (unset) or <<Table>>
    data,     \* the server: table name -> sequence of rows (column name -> value)
    faults,   \* number of calls so far that ended in a TypeError or AttributeError
    last      \* the last call: operation, arguments, exception raised, value returned,
              \* statements sent, driver connections opened (MySQLdb.connect calls),
              \* class files tables/<name>.py opened for writing

vars == <<schema, data, db, tables, attrs, last, faults>>

----------------------------------------------------------------------------
(* Bounds and input domains *)

MaxFaults == 2      \* calls that end in a TypeError or AttributeError, after which the
                    \* caller still goes on using the Database

MaxRows == 2        \* rows a table holds

NameOrder == <<"t", "u">>      \* table names, in the order SHOW TABLES lists them
Names == {NameOrder[i] : i \in DOMAIN NameOrder}

Col(f, d) == [Field |-> f, Type |-> d]

\* columns drop_column is asked to drop, names alter_column is asked to give
ColNames == {"a", "b"}
NewNames == {"", "b"}

\* column lists given to make_table
FieldLists == { <<Col("a", "INT")>>, <<Col("a", "INT"), Col("b", "INT")>> }

\* the schemas the server may hold when the program starts
InitSchemas ==
    { [n \in Names |-> <<>>],
      [n \in Names |-> IF n = "t" THEN <<Col("a", "INT"), Col("b", "INT")>> ELSE <<>>],
      [n \in Names |-> IF n = "t" THEN <<Col("a", "INT"), Col("b", "INT")>>
                       ELSE IF n = "u" THEN <<Col("a", "INT")>> ELSE <<>>],
      [n \in Names |-> <<Col("a", "INT"), Col("b", "INT")>>] }

----------------------------------------------------------------------------
(* Python values *)

PyNone == [shape |-> "None", rows |-> <<>>]
PyList(rows) == [shape |-> "list", rows |-> rows]
PySelf == [shape |-> "self", rows |-> <<>>]
PyTable(t) == [shape |-> "Table", rows |-> <<t>>]

\* bool(x) of a value returned by sql_query
Truthy(v) == v.shape # "None" /\ v.rows # <<>>

Table(name, cols) == [name |-> name, cols |-> cols]

\* Table.col_names: [i['Field'] for i in self._cols]; iterating a bare mapping
\* yields its keys (str), and str['Field'] raises TypeError
col_names_raises(t) == t.cols.shape # "list"

col_names(t) == [i \in 1..Len(t.cols.rows) |-> t.cols.rows[i].Field]

open(s) == s.db # "None"

table_names(s) ==
    IF s.tables.shape = "list"
    THEN [i \in 1..Len(s.tables.rows) |-> s.tables.rows[i].name]
    ELSE <<>>

Range(q) == {q[i] : i \in DOMAIN q}

\* list.index(x): the first position of x
IndexOf(q, x) == CHOOSE i \in DOMAIN q : q[i] = x /\ \A j \in 1..(i-1) : q[j] # x

\* del q[i]
DelAt(q, i) == [j \in 1..(Len(q)-1) |-> IF j < i THEN q[j] ELSE q[j+1]]

\* Python str, int, bytes and dict values; a dict keeps its items in insertion
\* order, as a sequence of <<key, value>>
PyStr(x) == [shape |-> "str", rows |-> <<x>>]
PyInt(n) == [shape |-> "int", rows |-> <<n>>]
PyBytes(x) == [shape |-> "bytes", rows |-> <<x>>]
PyDict(items) == [shape |-> "dict", rows |-> items]

\* c in text
Has(text, c) ==
    \E i \in 1..(Len(text) - Len(c) + 1) : SubSeq(text, i, i + Len(c) - 1) = c

\* text[:-1]
DropLast(text) == SubSeq(text, 1, Len(text) - 1)

\* sep.join(parts)
RECURSIVE Join(_, _)
Join(sep, parts) ==
    IF parts = <<>> THEN ""
    ELSE IF Len(parts) = 1 THEN parts[1]
    ELSE parts[1] \o sep \o Join(sep, Tail(parts))

UpperOf ==
    [a |-> "A", b |-> "B", c |-> "C", d |-> "D", e |-> "E", f |-> "F", g |-> "G",
     h |-> "H", i |-> "I", j |-> "J", k |-> "K", l |-> "L", m |-> "M", n |-> "N",
     o |-> "O", p |-> "P", q |-> "Q", r |-> "R", s |-> "S", t |-> "T", u |-> "U",
     v |-> "V", w |-> "W", x |-> "X", y |-> "Y", z |-> "Z"]

\* text.upper()
RECURSIVE Upper(_)
Upper(text) ==
    IF text = "" THEN ""
    ELSE LET c == SubSeq(text, 1, 1) IN
         (IF c \in DOMAIN UpperOf THEN UpperOf[c] ELSE c) \o Upper(SubSeq(text, 2, Len(text)))

\* text.lower()
RECURSIVE Lower(_)
Lower(text) ==
    IF text = "" THEN ""
    ELSE LET c == SubSeq(text, 1, 1) IN
         (IF \E l \in DOMAIN UpperOf : UpperOf[l] = c
          THEN CHOOSE l \in DOMAIN UpperOf : UpperOf[l] = c
          ELSE c) \o Lower(SubSeq(text, 2, Len(text)))

\* MySQLdb.escape_string(v).decode() for a str over letters, quotes and backslash:
\* a backslash before every quote and backslash
RECURSIVE escape_string(_)
escape_string(v) ==
    IF v = "" THEN ""
    ELSE LET c == SubSeq(v, 1, 1) IN
         (IF c \in {"'", "\"", "\\"} THEN "\\" \o c ELSE c)
            \o escape_string(SubSeq(v, 2, Len(v)))

\* repr() of a bytes object, without the leading b and the quotes: Python quotes
\* with " when the bytes hold ' and no ", with ' otherwise, and puts a backslash
\* before the quote it uses and before a backslash
RECURSIVE ReprBody(_, _)
ReprBody(v, quote) ==
    IF v = "" THEN ""
    ELSE LET c == SubSeq(v, 1, 1) IN
         (IF c \in {quote, "\\"} THEN "\\" \o c ELSE c)
            \o ReprBody(SubSeq(v, 2, Len(v)), quote)

\* str(v) for v of type bytes
BytesStr(v) ==
    LET quote == IF Has(v, "'") /\ ~Has(v, "\"") THEN "\"" ELSE "'"
    IN  "b" \o quote \o ReprBody(v, quote) \o quote

HexDigits ==
    [i \in {"0", "1", "2", "3", "4", "5", "6", "7", "8", "9"} |->
        CHOOSE n \in 0..9 : ToString(n) = i]

\* int(text, 16), for digits 0-9; raises ValueError on anything else
IsHex(text) == text # "" /\ \A i \in 1..Len(text) : SubSeq(text, i, i) \in DOMAIN HexDigits

RECURSIVE HexInt(_)
HexInt(text) ==
    IF text = "" THEN 0
    ELSE 16 * HexInt(DropLast(text)) + HexDigits[SubSeq(text, Len(text), Len(text))]

----------------------------------------------------------------------------
(* Statements and the server *)

Stmt(verb, tbl, field, new, cols, flag) ==
    [verb |-> verb, tbl |-> tbl, field |-> field, new |-> new, cols |-> cols, flag |-> flag]

ShowTables == Stmt("SHOW TABLES", "", "", "", <<>>, FALSE)
Describe(n) == Stmt("DESCRIBE", n, "", "", <<>>, FALSE)

Present(sch) == SelectSeq(NameOrder, LAMBDA n : sch[n] # <<>>)

Fields(cols) == {cols[i].Field : i \in DOMAIN cols}

FieldPos(cols, f) == CHOOSE i \in DOMAIN cols : cols[i].Field = f

\* the outcome of one statement on the server: error, new schema, result set
\* (has = FALSE when store_result() returns None)
Outcome(err, sch, has, rows) == [err |-> err, schema |-> sch, has |-> has, rows |-> rows]

Exec(sch, q) ==
    CASE q.verb = "SHOW TABLES" ->
            Outcome(FALSE, sch, TRUE,
                    [i \in 1..Len(Present(sch)) |-> [Tables_in_db |-> Present(sch)[i]]])
      [] q.verb = "DESCRIBE" ->
            IF sch[q.tbl] = <<>> THEN Outcome(TRUE, sch, FALSE, <<>>)
            ELSE Outcome(FALSE, sch, TRUE, sch[q.tbl])
      [] q.verb = "CREATE TABLE" ->      \* flag: IF NOT EXISTS
            IF sch[q.tbl] # <<>>
            THEN Outcome(~q.flag, sch, FALSE, <<>>)
            ELSE Outcome(FALSE, [sch EXCEPT ![q.tbl] = q.cols], FALSE, <<>>)
      [] q.verb = "DROP TABLE IF EXISTS" ->
            Outcome(FALSE, [sch EXCEPT ![q.tbl] = <<>>], FALSE, <<>>)
      [] q.verb = "DROP TEMPORARY TABLE IF EXISTS" ->   \* sch holds no TEMPORARY table
            Outcome(FALSE, sch, FALSE, <<>>)
      [] q.verb = "RENAME" ->
            IF sch[q.tbl] = <<>> \/ sch[q.new] # <<>> THEN Outcome(TRUE, sch, FALSE, <<>>)
            ELSE Outcome(FALSE, [sch EXCEPT ![q.new] = sch[q.tbl], ![q.tbl] = <<>>], FALSE, <<>>)
      [] q.verb = "ADD COLUMN" ->        \* flag: FIRST
            IF sch[q.tbl] = <<>> \/ q.field \in Fields(sch[q.tbl])
            THEN Outcome(TRUE, sch, FALSE, <<>>)
            ELSE Outcome(FALSE,
                         [sch EXCEPT ![q.tbl] = IF q.flag THEN q.cols \o @ ELSE @ \o q.cols],
                         FALSE, <<>>)
      [] q.verb = "DROP COLUMN" ->
            IF sch[q.tbl] = <<>> \/ q.field \notin Fields(sch[q.tbl]) \/ Len(sch[q.tbl]) = 1
            THEN Outcome(TRUE, sch, FALSE, <<>>)
            ELSE Outcome(FALSE,
                         [sch EXCEPT ![q.tbl] = DelAt(@, FieldPos(@, q.field))],
                         FALSE, <<>>)
      [] q.verb = "CHANGE COLUMN" ->     \* cols: the one new descriptor
            IF \/ sch[q.tbl] = <<>>
               \/ q.field \notin Fields(sch[q.tbl])
               \/ (q.new # q.field /\ q.new \in Fields(sch[q.tbl]))
            THEN Outcome(TRUE, sch, FALSE, <<>>)
            ELSE Outcome(FALSE,
                         [sch EXCEPT ![q.tbl] = [@ EXCEPT ![FieldPos(@, q.field)] = q.cols[1]]],
                         FALSE, <<>>)
      [] q.verb = "TRUNCATE TABLE" ->
            IF sch[q.tbl] = <<>> THEN Outcome(TRUE, sch, FALSE, <<>>)
            ELSE Outcome(FALSE, sch, FALSE, <<>>)
      [] q.verb = "ADD FOREIGN KEY" ->   \* new: the table referenced
            IF sch[q.tbl] = <<>> \/ q.field \notin Fields(sch[q.tbl]) \/ sch[q.new] = <<>>
            THEN Outcome(TRUE, sch, FALSE, <<>>)
            ELSE Outcome(FALSE, sch, FALSE, <<>>)
      [] q.verb = "DROP FOREIGN KEY" ->  \* flag: the table holds the constraint
            IF sch[q.tbl] = <<>> \/ ~q.flag THEN Outcome(TRUE, sch, FALSE, <<>>)
            ELSE Outcome(FALSE, sch, FALSE, <<>>)

----------------------------------------------------------------------------
(* The server: statements on rows.  A statement is kept with its text and   *)
(* with the parts the server reads from it: the verb, the table, the        *)
(* columns (names for SELECT, <<name, literal>> for INSERT and UPDATE, the  *)
(* literal being the text between the quotes), the clauses after them and   *)
(* the LIMIT appended by sql_query.  The server evaluates a clause that is  *)
(* empty or WHERE column='literal'; the reply to a statement with other     *)
(* clauses (an input of the model) comes with the statement.                *)

Dml(verb, tbl, cols, extra, text, reply) ==
    [verb |-> verb, tbl |-> tbl, cols |-> cols, extra |-> extra, text |-> text,
     limit |-> 0, offset |-> 0, reply |-> reply]

\* the reply of the server to a statement on rows: error, new rows of the
\* tables, result set (has = FALSE when store_result() returns None)
Reply(err, dat, has, rows) == [err |-> err, data |-> dat, has |-> has, rows |-> rows]

\* the reply is worked out by the server from its rows
FromServer == [by |-> "server"]

\* the reply is given: an error, no result set, or this result set
Given(err, has, rows) == [by |-> "env", err |-> err, has |-> has, rows |-> rows]

\* a quoted literal is well formed when no quote in it ends the literal early:
\* a backslash takes the next character, a quote must be doubled
RECURSIVE LitOk(_)
LitOk(lit) ==
    IF lit = "" THEN TRUE
    ELSE LET c == SubSeq(lit, 1, 1) IN
         IF c = "\\" THEN Len(lit) >= 2 /\ LitOk(SubSeq(lit, 3, Len(lit)))
         ELSE IF c = "'"
              THEN Len(lit) >= 2 /\ SubSeq(lit, 2, 2) = "'" /\ LitOk(SubSeq(lit, 3, Len(lit)))
         ELSE LitOk(SubSeq(lit, 2, Len(lit)))

\* the string a well-formed literal denotes
RECURSIVE unescape(_)
unescape(lit) ==
    IF lit = "" THEN ""
    ELSE LET c == SubSeq(lit, 1, 1) IN
         IF c \in {"\\", "'"} THEN SubSeq(lit, 2, 2) \o unescape(SubSeq(lit, 3, Len(lit)))
         ELSE c \o unescape(SubSeq(lit, 2, Len(lit)))

\* text without the spaces around it
RECURSIVE Strip(_)
Strip(text) ==
    IF text = "" THEN ""
    ELSE IF SubSeq(text, 1, 1) = " " THEN Strip(SubSeq(text, 2, Len(text)))
    ELSE IF SubSeq(text, Len(text), Len(text)) = " " THEN Strip(DropLast(text))
    ELSE text

\* the position of the first = of text, 0 if none
EqPos(text) ==
    IF Has(text, "=")
    THEN CHOOSE i \in 1..Len(text) :
            SubSeq(text, i, i) = "=" /\ \A j \in 1..(i-1) : SubSeq(text, j, j) # "="
    ELSE 0

\* the condition c of a clause, its = at position p: column='literal'
CondOf(c, p) ==
    IF /\ p > 1 /\ Len(c) >= p + 2
       /\ SubSeq(c, p + 1, p + 1) = "'" /\ SubSeq(c, Len(c), Len(c)) = "'"
       /\ LitOk(SubSeq(c, p + 2, Len(c) - 1))
    THEN [ok |-> TRUE, cond |-> TRUE, field |-> SubSeq(c, 1, p - 1),
          lit |-> SubSeq(c, p + 2, Len(c) - 1)]
    ELSE [ok |-> FALSE, cond |-> FALSE, field |-> "", lit |-> ""]

\* the clauses x of a statement, the spaces around them taken off
ClauseOf(x) ==
    IF x = "" THEN [ok |-> TRUE, cond |-> FALSE, field |-> "", lit |-> ""]
    ELSE IF SubSeq(x, 1, 6) = "WHERE "
         THEN CondOf(Strip(SubSeq(x, 7, Len(x))), EqPos(Strip(SubSeq(x, 7, Len(x)))))
    ELSE [ok |-> FALSE, cond |-> FALSE, field |-> "", lit |-> ""]

\* the clauses of a statement as the server reads them: ok, whether there is a
\* condition, and its column and literal
Clause(extra) == ClauseOf(Strip(extra))

\* the row satisfies the clause
Matches(row, cl) == cl.cond => row[cl.field] = unescape(cl.lit)

\* rows without the repetitions of earlier rows
Dedupe(rows) ==
    SelectSeq([i \in DOMAIN rows |-> [at |-> i, row |-> rows[i]]],
              LAMBDA e : \A j \in 1..(e.at - 1) : rows[j] # e.row)

\* the cell the driver hands over for a stored value: bytes for a binary
\* column, str for a text column
Cell(v, type) == IF type = "BLOB" THEN PyBytes(v) ELSE PyStr(v)

TypeOf(cols, f) == cols[FieldPos(cols, f)].Type

\* LIMIT offset, limit over the rows of a result set (limit = 0: no LIMIT)
Limited(rows, limit, offset) ==
    IF limit = 0 THEN rows
    ELSE SubSeq(rows, offset + 1,
                IF offset + limit < Len(rows) THEN offset + limit ELSE Len(rows))

\* the columns named by an INSERT or UPDATE, and the literal given to column f
Given_cols(q) == {q.cols[i][1] : i \in DOMAIN q.cols}
LitOf(q, f) == q.cols[CHOOSE i \in DOMAIN q.cols : q.cols[i][1] = f][2]

\* the result set of a SELECT over the rows hit that satisfy its condition
ResultSet(cols, q, hit) ==
    [i \in DOMAIN hit |->
        [f \in (IF q.cols = <<"*">> THEN Fields(cols) ELSE Range(q.cols)) |->
            Cell(hit[i][f], TypeOf(cols, f))]]

Distinct(rs) == [i \in DOMAIN Dedupe(rs) |-> Dedupe(rs)[i].row]

\* the reply to statement q with well-formed clauses cl on a table that exists
ExecOn(dat, cols, q, cl) ==
    CASE q.verb = "SELECT COUNT(*)" ->
            Reply(FALSE, dat, TRUE,
                  << [count |-> PyInt(Len(SelectSeq(dat[q.tbl], LAMBDA row : Matches(row, cl))))] >>)
      [] q.verb \in {"SELECT", "SELECT DISTINCT"} ->
            IF q.cols = <<>> \/ (q.cols # <<"*">> /\ ~(Range(q.cols) \subseteq Fields(cols)))
            THEN Reply(TRUE, dat, FALSE, <<>>)
            ELSE Reply(FALSE, dat, TRUE,
                       Limited(IF q.verb = "SELECT"
                               THEN ResultSet(cols, q,
                                        SelectSeq(dat[q.tbl], LAMBDA row : Matches(row, cl)))
                               ELSE Distinct(ResultSet(cols, q,
                                        SelectSeq(dat[q.tbl], LAMBDA row : Matches(row, cl)))),
                               q.limit, q.offset))
      [] q.verb = "DELETE" ->
            Reply(FALSE,
                  [dat EXCEPT ![q.tbl] = SelectSeq(@, LAMBDA row : ~Matches(row, cl))],
                  FALSE, <<>>)
      [] q.verb = "INSERT" ->      \* every column is NOT NULL with no default
            IF \/ Given_cols(q) # Fields(cols)
               \/ \E i \in DOMAIN q.cols : ~LitOk(q.cols[i][2])
               \/ cl.cond \/ Strip(q.extra) # ""
            THEN Reply(TRUE, dat, FALSE, <<>>)
            ELSE Reply(FALSE,
                       [dat EXCEPT ![q.tbl] =
                           Append(@, [f \in Given_cols(q) |-> unescape(LitOf(q, f))])],
                       FALSE, <<>>)
      [] q.verb = "UPDATE" ->
            IF \/ q.cols = <<>> \/ ~(Given_cols(q) \subseteq Fields(cols))
               \/ \E i \in DOMAIN q.cols : ~LitOk(q.cols[i][2])
            THEN Reply(TRUE, dat, FALSE, <<>>)
            ELSE Reply(FALSE,
                       [dat EXCEPT ![q.tbl] =
                           [k \in DOMAIN @ |->
                               IF Matches(@[k], cl)
                               THEN [f \in DOMAIN @[k] |->
                                       IF f \in Given_cols(q)
                                       THEN unescape(LitOf(q, f))
                                       ELSE @[k][f]]
                               ELSE @[k]]],
                       FALSE, <<>>)

\* the reply to statement q when its clauses read as cl
ExecWith(dat, sch, q, cl) ==
    IF sch[q.tbl] = <<>> \/ ~cl.ok \/ (cl.cond /\ cl.field \notin Fields(sch[q.tbl]))
    THEN Reply(TRUE, dat, FALSE, <<>>)
    ELSE ExecOn(dat, sch[q.tbl], q, cl)

ExecDml(dat, sch, q) ==
    IF q.reply.by = "env"
    THEN Reply(q.reply.err, dat, q.reply.has, q.reply.rows)
    ELSE ExecWith(dat, sch, q, Clause(q.extra))

----------------------------------------------------------------------------
(* Results of a method call: the state it leaves, the exception it raised   *)
(* ("none" when it returned), the value returned and the statements sent.   *)

R(s, raised, ret, sent) == [st |-> s, raised |-> raised, ret |-> ret, sent |-> sent]

\* what the log of a call keeps of a statement handed to the driver in state s
Sent(s, q) == << [verb |-> q.verb, tbl |-> q.tbl, open |-> open(s)] >>


\* Collapse that takes the first row of every result set that has rows
Collapse_first(rows) ==
    IF rows # <<>>
    THEN IF Cardinality(DOMAIN rows[1]) = 1
         THEN [shape |-> "scalar", rows |-> <<rows[1]>>]
         ELSE [shape |-> "dict", rows |-> <<rows[1]>>]
    ELSE PyList(rows)

\* Collapse that turns a result set without rows into None
Collapse_none(rows) ==
    IF rows # <<>> /\ Len(rows) = 1
    THEN IF Cardinality(DOMAIN rows[1]) = 1
         THEN [shape |-> "scalar", rows |-> rows]
         ELSE [shape |-> "dict", rows |-> rows]
    ELSE IF rows = <<>> THEN PyNone
    ELSE PyList(rows)

\* the rows fetched by sql_query, collapsed (lines 426-433)
Collapse(rows) ==
    IF rows # <<>> /\ Len(rows) = 1
    THEN IF Cardinality(DOMAIN rows[1]) = 1
         THEN [shape |-> "scalar", rows |-> rows]
         ELSE [shape |-> "dict", rows |-> rows]
    ELSE PyList(rows)

\* sql_query without the check of self.open (lines 363-364)
sql_query_unchecked(s, q) ==
    LET o == Exec(s.schema, q) IN
    IF o.err THEN R(s, "MySQLError", PyNone, Sent(s, q))
    ELSE R([s EXCEPT !.schema = o.schema], "none",
           IF o.has THEN Collapse(o.rows) ELSE PyNone, Sent(s, q))

sql_query(s, q) ==
    IF ~open(s) THEN R(s, "Exception", PyNone, <<>>)
    ELSE LET o == Exec(s.schema, q) IN
         IF o.err THEN R(s, "MySQLError", PyNone, Sent(s, q))
         ELSE R([s EXCEPT !.schema = o.schema], "none",
                IF o.has THEN Collapse(o.rows) ELSE PyNone, Sent(s, q))

----------------------------------------------------------------------------
(* Database: lifecycle *)

\* [list(i.values())[0] for i in tbls] over a list of one-column rows
FirstValues(rows) == [i \in 1..Len(rows) |-> rows[i].Tables_in_db]

\* for i in tbls: setattr(self, i, Table(self, i, sql_query('DESCRIBE i;')))
DiscoverAttrs(s, tbls) ==
    [n \in Names |->
        IF n \in Range(tbls)
        THEN << Table(n, sql_query(s, Describe(n)).ret) >>
        ELSE s.attrs[n]]

DiscoverSent(s, tbls) == [i \in 1..Len(tbls) |-> sql_query(s, Describe(tbls[i])).sent[1]]

\* connect from line 287 on: a new connection and the discovery of the tables
discover(s) ==
    LET s1 == [s EXCEPT !.db = "conn", !.conns = @ + 1]
        r  == sql_query(s1, ShowTables)
    IN  IF ~Truthy(r.ret) THEN R(s1, "none", PySelf, r.sent)
        ELSE IF r.ret.shape # "list"
             \* tbls is the bare table name: i.values() on a str
             THEN R(s1, "AttributeError", PyNone, r.sent)
        ELSE LET tbls == FirstValues(r.ret.rows)
                 a    == DiscoverAttrs(s1, tbls)
             IN  R([s1 EXCEPT !.attrs = a,
                              !.tables = PyList([i \in 1..Len(tbls) |-> a[tbls[i]][1]])],
                   "none", PySelf, r.sent \o DiscoverSent(s1, tbls))

\* connect without the check of self.open (line 285)
connect_unguarded(s) == discover(s)

connect(s) == IF open(s) THEN R(s, "none", PySelf, <<>>) ELSE discover(s)

\* the first position of tbls whose accessor is not set, Len(tbls)+1 if none
FirstUnset(s, tbls) ==
    IF \E i \in DOMAIN tbls : s.attrs[tbls[i]] = <<>>
    THEN CHOOSE i \in DOMAIN tbls :
            s.attrs[tbls[i]] = <<>> /\ \A j \in 1..(i-1) : s.attrs[tbls[j]] # <<>>
    ELSE Len(tbls) + 1

close(s) ==
    IF ~open(s) THEN R(s, "none", PySelf, <<>>)
    ELSE LET s1 == [s EXCEPT !.tables = PyNone]
             r  == sql_query(s1, ShowTables)
         IN  IF r.ret.shape # "list"
             \* tbls is the bare table name: i.values() on a str
             THEN R(s1, "AttributeError", PyNone, r.sent)
             ELSE LET tbls == FirstValues(r.ret.rows)
                      k    == FirstUnset(s1, tbls)
                      a    == [n \in Names |->
                                 IF \E i \in 1..(k-1) : tbls[i] = n THEN <<>> ELSE s1.attrs[n]]
                  IN  IF k <= Len(tbls)
                      \* delattr of an accessor that is not set
                      THEN R([s1 EXCEPT !.attrs = a], "AttributeError", PyNone, r.sent)
                      ELSE R([s1 EXCEPT !.attrs = a, !.db = "None"], "none", PySelf, r.sent)

reconnect(s) ==
    LET c == close(s) IN
    IF c.raised # "none" THEN c
    ELSE LET o == connect(c.st) IN R(o.st, o.raised, o.ret, c.sent \o o.sent)

----------------------------------------------------------------------------
(* Database: queries *)

Methods == {"distinct", "select", "insert", "delete", "update", "count"}

\* the cell sql_query returns for a cell of the driver (lines 415-423): bytes
\* are read as a hexadecimal number when their str() holds \x, and as the
\* inside of their str() otherwise
ConvertRaises(c) ==
    /\ c.shape = "bytes"
    /\ Has(BytesStr(c.rows[1]), "\\x")
    /\ ~IsHex(SubSeq(BytesStr(c.rows[1]), 5, Len(BytesStr(c.rows[1])) - 1))

Convert(c) ==
    IF c.shape # "bytes" THEN c
    ELSE LET sv == BytesStr(c.rows[1]) IN
         IF Has(sv, "\\x") THEN PyInt(HexInt(SubSeq(sv, 5, Len(sv) - 1)))
         ELSE PyStr(SubSeq(sv, 3, Len(sv) - 1))

\* Limit that keeps the final ';' of the statement before the clause
Limit_keeps_end(text, limit, offset) ==
    IF limit > 0
    THEN text \o " LIMIT "
            \o (IF offset > 0 THEN ToString(offset) \o ", " ELSE "")
            \o ToString(limit) \o ";"
    ELSE text

\* the statement with the LIMIT clause of lines 372-378
Limit(text, limit, offset) ==
    IF limit > 0
    THEN DropLast(text) \o " LIMIT "
            \o (IF offset > 0 THEN ToString(offset) \o ", " ELSE "")
            \o ToString(limit) \o ";"
    ELSE text

\* what the log of a call keeps of a statement on rows
SentText(s, q) == << [verb |-> q.verb, tbl |-> q.tbl, open |-> open(s), text |-> q.text] >>

\* the statement as sent: with the LIMIT clause when limit > 0
Limiting(q, l, offset) ==
    IF l > 0
    THEN [q EXCEPT !.text = Limit(q.text, l, offset),
                   !.limit = l,
                   !.offset = IF offset > 0 THEN offset ELSE 0]
    ELSE q

\* the rows fetched, their cells converted (lines 413-423)
Converted(rows) ==
    [i \in DOMAIN rows |-> [f \in DOMAIN rows[i] |-> Convert(rows[i][f])]]

\* r.fetch_row(maxrows=n): the first n rows, all of them when n is 0
Fetched(rows, n) == IF n > 0 /\ n < Len(rows) THEN SubSeq(rows, 1, n) ELSE rows

\* fetch_row and the conversion of the cells (lines 410-433)
fetch_rows(s, q, rows) ==
    IF \E i \in DOMAIN rows : \E f \in DOMAIN rows[i] : ConvertRaises(rows[i][f])
    THEN R(s, "ValueError", PyNone, SentText(s, q))
    ELSE R(s, "none", Collapse(Converted(rows)), SentText(s, q))

\* the end of sql_query (lines 380-433): statement q sent, o the reply;
\* maxrows is the keyword argument, a Python value (0 when it is not given)
fetch(s, q, o, maxrows) ==
    IF o.err THEN R(s, "MySQLError", PyNone, SentText(s, q))
    ELSE IF ~o.has THEN R([s EXCEPT !.data = o.data], "none", PyNone, SentText(s, q))
    ELSE IF maxrows.shape # "int"
         THEN R([s EXCEPT !.data = o.data], "TypeError", PyNone, SentText(s, q))
    ELSE IF maxrows.rows[1] < 0
         THEN R([s EXCEPT !.data = o.data], "ValueError", PyNone, SentText(s, q))
    ELSE fetch_rows([s EXCEPT !.data = o.data], q, Fetched(o.rows, maxrows.rows[1]))

execute(s, q, maxrows) == fetch(s, q, ExecDml(s.data, s.schema, q), maxrows)

\* sql_query(q, limit, offset, maxrows=maxrows) for a statement on rows, given
\* with its text; limit, offset and maxrows are Python values
sql_query_text(s, q, limit, offset, maxrows) ==
    IF ~open(s) THEN R(s, "Exception", PyNone, <<>>)
    ELSE IF limit.shape # "int" \/ offset.shape # "int" THEN R(s, "TypeError", PyNone, <<>>)
    ELSE execute(s, Limiting(q, limit.rows[1], offset.rows[1]), maxrows)

\* the keyword arguments a Table method hands on to sql_query
Kw(limit, offset) == [limit |-> limit, offset |-> offset, maxrows |-> PyInt(0)]
NoKw == Kw(PyInt(-1), PyInt(0))

\* the exception raised by the checks of lines 449-474, "none" if none
query_raises(method, fields, extra) ==
    LET m == Lower(method.rows[1]) IN
    IF method.shape # "str" THEN "TypeError"
    ELSE IF m \notin Methods THEN "ValueError"
    ELSE IF m \in {"insert", "update"} /\ fields.shape # "dict" THEN "TypeError"
    ELSE IF /\ m \in {"select", "distinct"}
            /\ \/ fields.shape = "list"
                    /\ \E i \in DOMAIN fields.rows : fields.rows[i].shape # "str"
               \/ fields.shape # "list" /\ fields # PyStr("all")
         THEN "TypeError"
    ELSE IF extra # PyNone /\ extra.shape # "str" THEN "TypeError"
    ELSE IF extra # PyNone /\ Has(extra.rows[1], ";") THEN "Exception"
    ELSE "none"

\* for i in fields: sql += i + ','
RECURSIVE Commas(_)
Commas(names) ==
    IF names = <<>> THEN "" ELSE names[1].rows[1] \o "," \o Commas(Tail(names))

\* Quoted without escape_string
RECURSIVE Quoted_raw(_)
Quoted_raw(items) ==
    IF items = <<>> THEN ""
    ELSE "'" \o items[1][2].rows[1] \o "'," \o Quoted_raw(Tail(items))

\* for i in fields.values(): sql += '\'' + MySQLdb.escape_string(i).decode() + '\','
RECURSIVE Quoted(_)
Quoted(items) ==
    IF items = <<>> THEN ""
    ELSE "'" \o escape_string(items[1][2].rows[1]) \o "'," \o Quoted(Tail(items))

\* for f,v in fields.items(): sql += f + '=\'' + MySQLdb.escape_string(v).decode() + '\','
RECURSIVE Assigned(_)
Assigned(items) ==
    IF items = <<>> THEN ""
    ELSE items[1][1] \o "='" \o escape_string(items[1][2].rows[1]) \o "',"
            \o Assigned(Tail(items))

\* the statement built by lines 476-512, for arguments that pass the checks
\* and values that are str
build(m, tbl, fields, extra) ==
    LET sql == Upper(m) \o " "
        keys == [i \in DOMAIN fields.rows |-> PyStr(fields.rows[i][1])]
        body ==
            CASE m \in {"select", "distinct"} ->
                    (IF fields = PyStr("all")
                     THEN (IF m = "distinct" THEN Upper("select distinct ") ELSE sql) \o "*"
                     ELSE DropLast((IF m = "distinct" THEN Upper("select distinct ") ELSE sql)
                                      \o Commas(fields.rows)))
                        \o " FROM " \o tbl
              [] m = "count" -> Upper("select COUNT(*)") \o " FROM " \o tbl
              [] m = "delete" -> sql \o " FROM " \o tbl
              [] m = "insert" ->
                    DropLast(DropLast(sql \o "INTO " \o tbl \o "(" \o Commas(keys)) \o ")"
                                \o " VALUES(" \o Quoted(fields.rows)) \o ")"
              [] m = "update" -> DropLast(sql \o tbl \o " SET " \o Assigned(fields.rows))
    IN  body \o (IF extra # PyNone /\ extra.rows[1] # "" THEN " " \o extra.rows[1] ELSE "") \o ";"

\* what the server reads from the statement
Parts(m, tbl, fields, extra, text, reply) ==
    Dml(CASE m = "count" -> "SELECT COUNT(*)"
          [] m = "distinct" -> "SELECT DISTINCT"
          [] OTHER -> Upper(m),
        tbl,
        CASE m \in {"select", "distinct"} ->
                IF fields = PyStr("all") THEN <<"*">>
                ELSE [i \in DOMAIN fields.rows |-> fields.rows[i].rows[1]]
          [] m \in {"insert", "update"} ->
                [i \in DOMAIN fields.rows |->
                    << fields.rows[i][1], escape_string(fields.rows[i][2].rows[1]) >>]
          [] OTHER -> <<>>,
        IF extra = PyNone THEN "" ELSE extra.rows[1],
        text, reply)

\* query(method, tbl, fields, extra, **kw); reply: FromServer, or the reply of
\* the server when the model does not work it out
query(s, method, tbl, fields, extra, kw, reply) ==
    LET m == Lower(method.rows[1]) IN
    IF ~open(s) THEN R(s, "Exception", PyNone, <<>>)
    ELSE IF query_raises(method, fields, extra) # "none"
         THEN R(s, query_raises(method, fields, extra), PyNone, <<>>)
    ELSE IF /\ m \in {"insert", "update"}
            /\ \E i \in DOMAIN fields.rows : fields.rows[i][2].shape # "str"
         \* MySQLdb.escape_string of a value that is not a str
         THEN R(s, "TypeError", PyNone, <<>>)
    ELSE sql_query_text(s, Parts(m, tbl, fields, extra, build(m, tbl, fields, extra), reply),
                        kw.limit, kw.offset, kw.maxrows)

----------------------------------------------------------------------------
(* Table: the methods that build a statement.  t is the name of the Table;  *)
(* a clause argument that is "" (0 for limit) is one left out or None.      *)

\* 'WORD ' + arg if arg else ''
Opt(word, arg) == IF arg # "" THEN word \o " " \o arg ELSE ""

count(s, t, where, kw, reply) ==
    query(s, PyStr("count"), t, PyNone, PyStr(Opt("WHERE", where)), kw, reply)

delete(s, t, where, kw, reply) ==
    query(s, PyStr("delete"), t, PyNone, PyStr(Opt("WHERE", where)), kw, reply)

\* limit and orderby are turned into clauses that are not handed on (line 152)
distinct(s, t, fields, where, limit, orderby, kw, reply) ==
    query(s, PyStr("distinct"), t, fields, PyStr(Opt("WHERE", where)), kw, reply)

insert(s, t, fields, extra, kw, reply) ==
    query(s, PyStr("insert"), t, fields, extra, kw, reply)

select(s, t, fields, where, limit, groupby, orderby, kw, reply) ==
    query(s, PyStr("select"), t, fields,
          PyStr(Join(" ", << Opt("WHERE", where),
                             Opt("LIMIT", IF limit # 0 THEN ToString(limit) ELSE ""),
                             Opt("ORDER BY", orderby),
                             Opt("GROUP BY", groupby) >>)),
          kw, reply)

update(s, t, fields, where, kw, reply) ==
    query(s, PyStr("update"), t, fields, PyStr(Opt("WHERE", where)), kw, reply)

\* The column descriptors of a Table are dicts that join changes in place and
\* shares between Tables.  A descriptor made by connect is an object of its
\* own, named by its table and position; join writes that name on every
\* descriptor it touches, so that a descriptor held by several lists is known.
Objects(n, cols) ==
    [i \in DOMAIN cols |->
        IF "obj" \in DOMAIN cols[i] THEN cols[i]
        ELSE [Field |-> cols[i].Field, Type |-> cols[i].Type, obj |-> <<n, i>>]]

\* the Field of every descriptor object held by the list
Heap(cols) ==
    [o \in {cols[i].obj : i \in DOMAIN cols} |->
        cols[CHOOSE i \in DOMAIN cols : cols[i].obj = o].Field]

\* for i in range(len(cols)): cols[i]['Field'] = name + '.' + cols[i]['Field']
RECURSIVE Qualify(_, _, _)
Qualify(heap, cols, name) ==
    IF cols = <<>> THEN heap
    ELSE Qualify([heap EXCEPT ![cols[1].obj] = name \o "." \o @], Tail(cols), name)

\* the list as it reads once the descriptors are as in heap
Written(cols, heap) == [i \in DOMAIN cols |-> [cols[i] EXCEPT !.Field = heap[cols[i].obj]]]

\* the end of join (lines 199-210): A and B are the Tables, LA and LB their
\* lists of descriptors, heap the descriptors after both loops; cols += temp
\* makes the list of A, which the Table returned shares, hold those of B too
joined(s, A, B, text, LA, LB, heap) ==
    R([s EXCEPT !.attrs = [n \in DOMAIN @ |->
                              [i \in DOMAIN @[n] |->
                                  IF @[n][i] = A
                                  THEN Table(A.name, PyList(Written(LA \o LB, heap)))
                                  ELSE IF @[n][i] = B
                                  THEN Table(B.name, PyList(Written(LB, heap)))
                                  ELSE @[n][i]]],
                 !.tables = IF @.shape # "list" THEN @
                            ELSE PyList([i \in DOMAIN @.rows |->
                                  IF @.rows[i] = A
                                  THEN Table(A.name, PyList(Written(LA \o LB, heap)))
                                  ELSE IF @.rows[i] = B
                                  THEN Table(B.name, PyList(Written(LB, heap)))
                                  ELSE @.rows[i]])],
      "none", PyTable(Table(text, PyList(Written(LA \o LB, heap)))), <<>>)

\* join_tables without the check of direction (line 196)
join_tables_unchecked(s, A, B, on, alias, direction) ==
    joined(s, A, B,
           A.name \o " " \o Upper(direction) \o " JOIN " \o B.name
               \o (IF alias # "" THEN "AS " \o alias ELSE "") \o " ON " \o on,
           Objects(A.name, A.cols.rows), Objects(B.name, B.cols.rows),
           Qualify(Qualify(Heap(Objects(A.name, A.cols.rows) \o Objects(B.name, B.cols.rows)),
                           Objects(A.name, A.cols.rows), A.name),
                   Objects(B.name, B.cols.rows), B.name))

\* A.join(B, on, alias, direction) for two Tables whose cols are lists
join_tables(s, A, B, on, alias, direction) ==
    IF Lower(direction) \notin {"inner", "left", "right"} THEN R(s, "none", PyNone, <<>>)
    ELSE joined(s, A, B,
                A.name \o " " \o Upper(direction) \o " JOIN " \o B.name
                    \o (IF alias # "" THEN "AS " \o alias ELSE "") \o " ON " \o on,
                Objects(A.name, A.cols.rows), Objects(B.name, B.cols.rows),
                Qualify(Qualify(Heap(Objects(A.name, A.cols.rows) \o Objects(B.name, B.cols.rows)),
                                Objects(A.name, A.cols.rows), A.name),
                        Objects(B.name, B.cols.rows), B.name))

\* db.<name>.join(db.<tbl>, on, alias, direction); alias "" is no alias
join(s, name, tbl, on, alias, direction) ==
    join_tables(s, s.attrs[name][1], s.attrs[tbl][1], on, alias, direction)

----------------------------------------------------------------------------
(* Database: class files *)

\* the end of a DDL method: the accessor of old is deleted and that of new set
\* to a new Table, the first registry entry called old is deleted and the new
\* Table appended (_tables += [...] raises TypeError when _tables is None)
register(s, old, new, cols, sent) ==
    LET t  == Table(new, cols)
        s1 == [s EXCEPT !.attrs = [@ EXCEPT ![old] = <<>>, ![new] = <<t>>]]
        tn == table_names(s1)
        s2 == IF old \in Range(tn)
              THEN [s1 EXCEPT !.tables = PyList(DelAt(@.rows, IndexOf(tn, old)))]
              ELSE s1
    IN  IF s2.tables.shape # "list" THEN R(s2, "TypeError", PyNone, sent)
        ELSE R([s2 EXCEPT !.tables = PyList(Append(@.rows, t))], "none", PyTable(t), sent)

\* with open('tables/' + name + '.py','w') as f: ... for j in cols: j['Field']
write_class(s, name, cols) ==
    LET s1 == [s EXCEPT !.wrote = @ \cup {name}] IN
    IF cols.shape # "list" THEN R(s1, "TypeError", PyNone, <<>>)
    ELSE R(s1, "none", PyNone, <<>>)

\* remake_class that also replaces the registry entry, as the DDL methods do
remake_class_registers(s, name) ==
    IF ~open(s) THEN R(s, "none", PySelf, <<>>)
    ELSE LET d == sql_query(s, Describe(name)) IN
         IF d.raised # "none" THEN d
         ELSE LET w == write_class(d.st, name, d.ret)
                  g == register(w.st, name, name, d.ret, d.sent)
              IN  IF w.raised # "none" THEN R(w.st, w.raised, PyNone, d.sent)
                  ELSE R(g.st, g.raised, IF g.raised = "none" THEN PySelf ELSE PyNone, d.sent)

remake_class(s, name) ==
    IF ~open(s) THEN R(s, "none", PySelf, <<>>)
    ELSE LET d == sql_query(s, Describe(name)) IN
         IF d.raised # "none" THEN d
         ELSE LET w == write_class(d.st, name, d.ret) IN
              R(w.st, w.raised, IF w.raised = "none" THEN PySelf ELSE PyNone, d.sent)

----------------------------------------------------------------------------
(* Database: DDL *)

\* make_table without the check of self.open (lines 612-613)
make_table_unguarded(s, name, fields, clobber, mk_class) ==
    LET c == sql_query(s, Stmt("CREATE TABLE", name, "", "", fields, ~clobber)) IN
    IF c.raised # "none" THEN c
    ELSE register(c.st, name, name, sql_query(c.st, Describe(name)).ret, c.sent)

make_table(s, name, fields, clobber, mk_class) ==
    IF ~open(s) THEN R(s, "none", PyNone, <<>>)
    ELSE LET c == sql_query(s, Stmt("CREATE TABLE", name, "", "", fields, ~clobber)) IN
         IF c.raised # "none" THEN c
         ELSE LET d == sql_query(c.st, Describe(name))
                  w == IF mk_class THEN write_class(d.st, name, d.ret)
                       ELSE R(d.st, "none", PyNone, <<>>)
              IN  IF d.raised # "none" THEN R(d.st, d.raised, PyNone, c.sent \o d.sent)
                  ELSE IF w.raised # "none" THEN R(w.st, w.raised, PyNone, c.sent \o d.sent)
                  ELSE register(w.st, name, name, d.ret, c.sent \o d.sent)

drop_table(s, name, temp, rm_class) ==
    IF ~open(s) THEN R(s, "none", PySelf, <<>>)
    ELSE LET c  == sql_query(s, Stmt(IF temp THEN "DROP TEMPORARY TABLE IF EXISTS"
                                             ELSE "DROP TABLE IF EXISTS",
                                     name, "", "", <<>>, FALSE))
             s1 == c.st
             tn == table_names(s1)
             s2 == IF name \in Range(tn)
                   THEN [s1 EXCEPT !.tables = PyList(DelAt(@.rows, IndexOf(tn, name)))]
                   ELSE s1
         IN  IF c.raised # "none" THEN c
             ELSE R([s2 EXCEPT !.attrs = [@ EXCEPT ![name] = <<>>]], "none", PySelf, c.sent)

move_table(s, old_name, new_name, mv_class) ==
    IF ~open(s) THEN R(s, "none", PyNone, <<>>)
    ELSE LET c == sql_query(s, Stmt("RENAME", old_name, "", new_name, <<>>, FALSE)) IN
         IF c.raised # "none" THEN c
         ELSE LET d == sql_query(c.st, Describe(new_name))
                  w == IF mv_class
                       THEN write_class(d.st, new_name, d.ret)
                       ELSE R(d.st, "none", PyNone, <<>>)
              IN  IF d.raised # "none" THEN R(d.st, d.raised, PyNone, c.sent \o d.sent)
                  ELSE IF w.raised # "none" THEN R(w.st, w.raised, PyNone, c.sent \o d.sent)
                  ELSE register(w.st, old_name, new_name, d.ret, c.sent \o d.sent)

\* what add_column, drop_column and alter_column do once the statement is built
alter_table(s, name, stmt, alter_class) ==
    IF ~open(s) THEN R(s, "none", PyNone, <<>>)
    ELSE LET c == sql_query(s, stmt) IN
         IF c.raised # "none" THEN c
         ELSE LET m == IF alter_class THEN remake_class(c.st, name)
                       ELSE R(c.st, "none", PySelf, <<>>)
                  d == sql_query(m.st, Describe(name))
              IN  IF m.raised # "none" THEN R(m.st, m.raised, PyNone, c.sent \o m.sent)
                  ELSE IF d.raised # "none"
                       THEN R(d.st, d.raised, PyNone, c.sent \o m.sent \o d.sent)
                  ELSE register(d.st, name, name, d.ret, c.sent \o m.sent \o d.sent)

\* after is '' (append) or 'first'
add_column(s, name, field, definition, after, alter_class) ==
    alter_table(s, name,
                Stmt("ADD COLUMN", name, field, "", <<Col(field, definition)>>, after = "first"),
                alter_class)

drop_column(s, name, field, alter_class) ==
    alter_table(s, name, Stmt("DROP COLUMN", name, field, "", <<>>, FALSE), alter_class)

\* sql += new_name if new_name else name
ChangeTo(name, new_name) == IF new_name # "" THEN new_name ELSE name

alter_column(s, name, field, definition, new_name, alter_class) ==
    alter_table(s, name,
                Stmt("CHANGE COLUMN", name, field, ChangeTo(name, new_name),
                     <<Col(ChangeTo(name, new_name), definition)>>, FALSE),
                alter_class)

truncate_table(s, name) ==
    IF ~open(s) THEN R(s, "none", PySelf, <<>>)
    ELSE LET c == sql_query(s, Stmt("TRUNCATE TABLE", name, "", "", <<>>, FALSE)) IN
         IF c.raised # "none" THEN c ELSE R(c.st, "none", PySelf, c.sent)

\* ref is `tbl`(`col`): the model keeps the table
add_fk(s, name, table, field, ref) ==
    IF ~open(s) THEN R(s, "none", PySelf, <<>>)
    ELSE LET c == sql_query(s, Stmt("ADD FOREIGN KEY", table, field, ref, <<>>, FALSE)) IN
         IF c.raised # "none" THEN c ELSE R(c.st, "none", PySelf, c.sent)

\* held: whether the server holds constraint fk_name on the table (the model
\* keeps no constraints, the server's answer is an input)
drop_fk(s, name, table, held) ==
    IF ~open(s) THEN R(s, "none", PySelf, <<>>)
    ELSE LET c == sql_query(s, Stmt("DROP FOREIGN KEY", table, "", "", <<>>, held)) IN
         IF c.raised # "none" THEN c ELSE R(c.st, "none", PySelf, c.sent)

\* self._db.commit() / self._db.rollback(): a call to the driver, not a statement
commit(s) ==
    IF open(s) THEN R(s, "none", PySelf, Sent(s, Stmt("COMMIT", "", "", "", <<>>, FALSE)))
    ELSE R(s, "none", PySelf, <<>>)

rollback(s) ==
    IF open(s) THEN R(s, "none", PySelf, Sent(s, Stmt("ROLLBACK", "", "", "", <<>>, FALSE)))
    ELSE R(s, "none", PySelf, <<>>)

----------------------------------------------------------------------------
(* The state machine *)

\* the state a method starts in; conns counts the calls of MySQLdb.connect
\* the method makes, wrote collects the class files it opens for writing
Cur == [schema |-> schema, data |-> data, db |-> db, tables |-> tables, attrs |-> attrs,
        conns |-> 0, wrote |-> {}]

\* the call ended in an exception raised by the Database's own code
Fault(r) == r.raised \in {"TypeError", "AttributeError"}

\* what the call changed: the live schema, the connection, the registry, the accessors
Changed(r) ==
    {c \in {"schema", "data", "db", "tables", "attrs"} :
        \/ c = "schema" /\ r.st.schema # schema
        \/ c = "data" /\ r.st.data # data
        \/ c = "db" /\ r.st.db # db
        \/ c = "tables" /\ r.st.tables # tables
        \/ c = "attrs" /\ r.st.attrs # attrs}

\* a call of method op with table name `name` and second name `new` (a table
\* or a column, "" when the method takes none), and what it did
Call(op, name, new, r) ==
    /\ Fault(r) => faults < MaxFaults
    /\ faults' = IF Fault(r) THEN faults + 1 ELSE faults
    /\ schema' = r.st.schema
    /\ data' = r.st.data
    /\ db' = r.st.db
    /\ tables' = r.st.tables
    /\ attrs' = r.st.attrs
    /\ last' = [op |-> op, name |-> name, new |-> new, wasOpen |-> open(Cur),
                raised |-> r.raised, ret |-> r.ret, sent |-> r.sent,
                conns |-> r.st.conns, wrote |-> r.st.wrote, changed |-> Changed(r)]

Init ==
    /\ schema \in InitSchemas
    /\ data = [n \in Names |-> <<>>]
    /\ db = "None"
    /\ faults = 0
    /\ tables = PyNone
    /\ attrs = [n \in Names |-> <<>>]
    /\ last = [op |-> "init", name |-> "", new |-> "", wasOpen |-> FALSE,
               raised |-> "none", ret |-> PyNone, sent |-> <<>>, conns |-> 0,
               wrote |-> {}, changed |-> {}]

Connect == Call("connect", "", "", connect(Cur))

Close == Call("close", "", "", close(Cur))

Reconnect == Call("reconnect", "", "", reconnect(Cur))

\* sql_query('SHOW TABLES;')
SqlQuery == Call("sql_query", "", "SHOW TABLES", sql_query(Cur, ShowTables))

\* Table.count() on a Table called tbl
Query ==
    \E tbl \in Names :
        Call("query", tbl, "count", count(Cur, tbl, "", NoKw, FromServer))

MakeTable ==
    \E name \in Names, fields \in FieldLists, clobber \in BOOLEAN, mk_class \in BOOLEAN :
        Call("make_table", name, "", make_table(Cur, name, fields, clobber, mk_class))

DropTable ==
    \E name \in Names :
        Call("drop_table", name, "", drop_table(Cur, name, FALSE, TRUE))

MoveTable ==
    \E old_name \in Names, mv_class \in BOOLEAN :
      \E new_name \in Names \ {old_name} :
        Call("move_table", old_name, new_name, move_table(Cur, old_name, new_name, mv_class))

\* the lifecycle of the connection and the DDL on whole tables
Next ==
    \/ Connect
    \/ Close
    \/ Reconnect
    \/ SqlQuery
    \/ Query
    \/ MakeTable
    \/ DropTable
    \/ MoveTable

Spec == Init /\ [][Next]_vars

\* the table whose columns are altered
Altered == {"t"}

\* sql_query('ALTER TABLE t ADD COLUMN c INT;'), a schema change made without
\* the DDL methods
SqlAlter ==
    \E name \in Altered :
        Call("sql_query", name, "ADD COLUMN",
             sql_query(Cur, Stmt("ADD COLUMN", name, "c", "", <<Col("c", "INT")>>, FALSE)))

RemakeClass ==
    \E name \in Altered :
        Call("remake_class", name, "", remake_class(Cur, name))

AddColumn ==
    \E name \in Altered, after \in {"", "first"}, alter_class \in BOOLEAN :
        Call("add_column", name, "c", add_column(Cur, name, "c", "INT", after, alter_class))

DropColumn ==
    \E name \in Altered, field \in ColNames, alter_class \in BOOLEAN :
        Call("drop_column", name, field, drop_column(Cur, name, field, alter_class))

AlterColumn ==
    \E name \in Altered, new_name \in NewNames, alter_class \in BOOLEAN :
        Call("alter_column", name, "a", alter_column(Cur, name, "a", "INT", new_name, alter_class))

\* the lifecycle of the connection and the DDL on the columns of a table
NextCols ==
    \/ Connect
    \/ Close
    \/ SqlAlter
    \/ RemakeClass
    \/ AddColumn
    \/ DropColumn
    \/ AlterColumn

SpecCols == Init /\ [][NextCols]_vars

----------------------------------------------------------------------------
(* Rows: insert, select, distinct, count and delete on tables with a text   *)
(* and a binary column                                                      *)

\* t(a VARCHAR, b BLOB) and u(a VARCHAR)
RowSchemas ==
    { [n \in Names |->
         IF n = "t" THEN << Col("a", "VARCHAR"), Col("b", "BLOB") >>
         ELSE << Col("a", "VARCHAR") >>] }

\* the strings stored: without quotes, with one kind of quote, with both
Values == {"x", "O'B", "'\""}

\* column='value' as a caller writes it, the value escaped
Eq(f, v) == f \o "='" \o escape_string(v) \o "'"

\* the conditions of the calls: none, or column = value
Conds(tbl) ==
    {[field |-> "", value |-> ""]}
        \cup [field : Fields(schema[tbl]), value : Values]

CondText(c) == IF c.field = "" THEN "" ELSE Eq(c.field, c.value)

InitRows ==
    /\ schema \in RowSchemas
    /\ data = [n \in Names |-> <<>>]
    /\ db = "None"
    /\ faults = 0
    /\ tables = PyNone
    /\ attrs = [n \in Names |-> <<>>]
    /\ last = [op |-> "init", name |-> "", new |-> "", wasOpen |-> FALSE,
               raised |-> "none", ret |-> PyNone, sent |-> <<>>, conns |-> 0,
               wrote |-> {}, changed |-> {}]

\* Table.insert of one value into every column
InsertRow ==
    \E tbl \in Altered, v \in Values :
        LET fields == PyDict([i \in DOMAIN schema[tbl] |-> << schema[tbl][i].Field, PyStr(v) >>])
        IN  /\ Len(data[tbl]) < MaxRows
            /\ Call("insert", tbl, [fields |-> fields],
                    insert(Cur, tbl, fields, PyNone, NoKw, FromServer))

SelectRows ==
    \E tbl \in Altered, fields \in {PyStr("all"), PyList(<<PyStr("a")>>)} :
      \E c \in Conds(tbl) :
        Call("select", tbl, [fields |-> fields, cond |-> c],
             select(Cur, tbl, fields, CondText(c), 0, "", "", NoKw, FromServer))

DistinctRows ==
    \E tbl \in Altered, fields \in {PyStr("all"), PyList(<<PyStr("a")>>)} :
      \E c \in Conds(tbl) :
        Call("distinct", tbl, [fields |-> fields, cond |-> c],
             distinct(Cur, tbl, fields, CondText(c), 0, "", NoKw, FromServer))

CountRows ==
    \E tbl \in Altered :
      \E c \in Conds(tbl) :
        Call("count", tbl, [cond |-> c], count(Cur, tbl, CondText(c), NoKw, FromServer))

DeleteRows ==
    \E tbl \in Altered :
      \E c \in Conds(tbl) :
        Call("delete", tbl, [cond |-> c], delete(Cur, tbl, CondText(c), NoKw, FromServer))

NextRows ==
    \/ Connect
    \/ Close
    \/ InsertRow
    \/ SelectRows
    \/ DistinctRows
    \/ CountRows
    \/ DeleteRows

SpecRows == InitRows /\ [][NextRows]_vars

----------------------------------------------------------------------------
(* sql_query with its keyword argument maxrows, on the rows of table t *)

MaxrowsArgs == {PyInt(-1), PyInt(0), PyInt(1), PyStr("1")}

SqlQueryMaxrows ==
    \E limit \in {PyInt(-1), PyInt(1), PyStr("1")}, maxrows \in MaxrowsArgs :
        Call("sql_query", "t",
             [q |-> "SELECT * FROM t;", limit |-> limit, offset |-> PyInt(0),
              maxrows |-> maxrows],
             sql_query_text(Cur, Dml("SELECT", "t", <<"*">>, "", "SELECT * FROM t;", FromServer),
                            limit, PyInt(0), maxrows))

NextFetch ==
    \/ Connect
    \/ Close
    \/ InsertRow
    \/ SqlQueryMaxrows

SpecFetch == InitRows /\ [][NextFetch]_vars

----------------------------------------------------------------------------
(* usermgr: login and signup on the table `users`, which is table u here.   *)
(* The table has the columns username, password and email, and holds at     *)
(* most one row for a username.                                             *)

users == "u"

UserCols == << Col("username", "VARCHAR"), Col("password", "VARCHAR"), Col("email", "VARCHAR") >>

Usernames == {"bob", "O'B"}
Passwords == {"p", "q"}

\* pbkdf2_sha256.hash and pbkdf2_sha256.verify: a hash matches its password only
Hash(password) == "$pbkdf2-sha256$" \o password
verify(password, hash) == hash = Hash(password)

UserRow(username, password) ==
    [username |-> username, password |-> Hash(password), email |-> username \o "@x"]

UserTables ==
    {<<>>}
      \cup {<< UserRow(n, pw) >> : n \in Usernames, pw \in Passwords}
      \cup {<< UserRow(n[1], pw[1]), UserRow(n[2], pw[2]) >> :
               n \in {m \in Usernames \X Usernames : m[1] # m[2]}, pw \in Passwords \X Passwords}

InitUsers ==
    /\ schema = [n \in Names |-> IF n = users THEN UserCols ELSE << Col("a", "VARCHAR") >>]
    /\ \E rows \in UserTables : data = [n \in Names |-> IF n = users THEN rows ELSE <<>>]
    /\ db = "None"
    /\ faults = 0
    /\ tables = PyNone
    /\ attrs = [n \in Names |-> <<>>]
    /\ last = [op |-> "init", name |-> "", new |-> "", wasOpen |-> FALSE,
               raised |-> "none", ret |-> PyNone, sent |-> <<>>, conns |-> 0,
               wrote |-> {}, changed |-> {}]

PyTuple(items) == [shape |-> "tuple", rows |-> items]
PyBool(b) == [shape |-> "bool", rows |-> << IF b THEN "True" ELSE "False" >>]

\* login from line 62 on: r is the outcome of db.users.select('all', where=...)
login_selected(r, username, password) ==
    IF r.raised # "none" THEN r
    ELSE IF Truthy(r.ret)
         THEN IF r.ret.shape # "dict"
              \* user['password'] on a list of rows or on a bare value
              THEN R(r.st, "TypeError", PyNone, r.sent)
              ELSE IF ~verify(password, r.ret.rows[1].password.rows[1])
                   THEN R(r.st, "none",
                          PyTuple(<< PyDict(<<>>), PyStr("Incorrect password.") >>), r.sent)
                   \* error = not True
                   ELSE R(r.st, "none", PyTuple(<< r.ret, PyBool(FALSE) >>), r.sent)
    ELSE R(r.st, "none",
           PyTuple(<< PyDict(<<>>), PyStr("Username " \o username \o " was not found.") >>),
           r.sent)

login(s, username, password) ==
    IF ~open(s)
    THEN R(s, "none",
           PyTuple(<< PyDict(<<>>),
                      PyStr("Database must be opened. Please contact site owner.") >>),
           <<>>)
    ELSE IF s.attrs[users] = <<>> THEN R(s, "AttributeError", PyNone, <<>>)
    ELSE login_selected(select(s, users, PyStr("all"),
                               "username='" \o escape_string(username) \o "'",
                               0, "", "", NoKw, FromServer),
                        username, password)

\* signup: on an open Database get_userID(username) is called without db
\* (line 88); otherwise db.users.col_names is a list, and it is called (line 91)
signup(s, username, password, email) ==
    IF open(s) THEN R(s, "TypeError", PyNone, <<>>)
    ELSE IF s.attrs[users] = <<>> THEN R(s, "AttributeError", PyNone, <<>>)
    ELSE R(s, "TypeError", PyNone, <<>>)

Login ==
    \E username \in Usernames, password \in Passwords :
        Call("login", users, [username |-> username, password |-> password],
             login(Cur, username, password))

Signup ==
    \E username \in Usernames, password \in Passwords :
        Call("signup", users, [username |-> username, password |-> password],
             signup(Cur, username, password, username \o "@x"))

NextUsers ==
    \/ Connect
    \/ Close
    \/ Login
    \/ Signup

SpecUsers == InitUsers /\ [][NextUsers]_vars

----------------------------------------------------------------------------
(* Statements: the text that the Table methods, query and sql_query hand to *)
(* the driver.  The reply of the server is an input of each call.           *)

Wheres == {"", "a='x'"}
Limits == {0, 2}
Orders == {"", "a"}
Groups == {"", "b"}
SelectFields == {PyStr("all"), PyList(<<PyStr("a")>>)}

\* replies: a result set without rows, no result set, an error
NoRows == Given(FALSE, TRUE, <<>>)
NoResult == Given(FALSE, FALSE, <<>>)
Failed == Given(TRUE, FALSE, <<>>)

\* dicts of str values for insert and update
ValueDicts ==
    {PyDict(<< <<"a", PyStr(v)>> >>) : v \in Values}
        \cup {PyDict(<< <<"a", PyStr("O'B")>>, <<"b", PyStr("x")>> >>)}

\* the extra argument of insert
Extras == {PyNone, PyStr("ON DUPLICATE KEY UPDATE a='x'")}

\* arguments of query, valid and not
QueryMethods == {PyStr("select"), PyStr("Insert"), PyStr("count"), PyStr("drop"), PyInt(1)}
QueryFields ==
    {PyStr("all"), PyStr("a"), PyList(<<PyInt(1)>>),
     PyDict(<< <<"a", PyStr("x")>> >>), PyDict(<< <<"a", PyInt(1)>> >>)}
QueryExtras == {PyNone, PyStr("WHERE a='x'; DROP TABLE u"), PyInt(1)}

\* arguments of sql_query
Statements == {"SELECT * FROM t;", "SELECT a FROM t WHERE a='x';"}
LimitArgs == {PyInt(-1), PyInt(0), PyInt(2), PyStr("2")}
OffsetArgs == {PyInt(-1), PyInt(0), PyInt(1)}

TextCount ==
    \E tbl \in Altered, where \in Wheres :
      \E reply \in {Given(FALSE, TRUE, << [count |-> PyInt(0)] >>), Failed} :
        Call("count", tbl, [where |-> where], count(Cur, tbl, where, NoKw, reply))

TextDelete ==
    \E tbl \in Altered, where \in Wheres, reply \in {NoResult, Failed} :
        Call("delete", tbl, [where |-> where], delete(Cur, tbl, where, NoKw, reply))

TextDistinct ==
    \E tbl \in Altered, fields \in SelectFields, where \in Wheres :
      \E limit \in Limits, orderby \in Orders :
        Call("distinct", tbl,
             [fields |-> fields, where |-> where, limit |-> limit, orderby |-> orderby],
             distinct(Cur, tbl, fields, where, limit, orderby, NoKw, NoRows))

TextSelect ==
    \E tbl \in Altered, fields \in SelectFields, where \in Wheres :
      \E limit \in Limits, groupby \in Groups, orderby \in Orders :
        Call("select", tbl,
             [fields |-> fields, where |-> where, limit |-> limit,
              groupby |-> groupby, orderby |-> orderby],
             select(Cur, tbl, fields, where, limit, groupby, orderby, NoKw, NoRows))

TextInsert ==
    \E tbl \in Altered, fields \in ValueDicts, extra \in Extras :
        Call("insert", tbl, [fields |-> fields, extra |-> extra],
             insert(Cur, tbl, fields, extra, NoKw, NoResult))

TextUpdate ==
    \E tbl \in Altered, fields \in ValueDicts, where \in Wheres :
        Call("update", tbl, [fields |-> fields, where |-> where],
             update(Cur, tbl, fields, where, NoKw, NoResult))

QueryCall ==
    \E method \in QueryMethods, tbl \in Altered :
      \E fields \in QueryFields, extra \in QueryExtras :
        Call("query", tbl, [method |-> method, fields |-> fields, extra |-> extra],
             query(Cur, method, tbl, fields, extra, NoKw, NoRows))

SqlQueryLimit ==
    \E q \in Statements, limit \in LimitArgs, offset \in OffsetArgs :
        Call("sql_query", "t", [q |-> q, limit |-> limit, offset |-> offset],
             sql_query_text(Cur, Dml("SELECT", "t", <<"*">>, "", q, NoRows), limit, offset,
                            PyInt(0)))

NextText ==
    \/ Connect
    \/ Close
    \/ TextCount
    \/ TextDelete
    \/ TextDistinct
    \/ TextSelect
    \/ TextInsert
    \/ TextUpdate
    \/ QueryCall
    \/ SqlQueryLimit

SpecText == InitRows /\ [][NextText]_vars

----------------------------------------------------------------------------
(* Joins of two discovered tables with the columns id and val *)

MaxCols == 8        \* descriptors in the list of a Table

JoinSchemas == { [n \in Names |-> << Col("id", "INT"), Col("val", "INT") >>] }

Directions == {"inner", "LEFT", "Right", "outer"}
Aliases == {"", "x"}

\* the joining condition: the same column of both tables
On(name, tbl, f) == name \o "." \o f \o "=" \o tbl \o "." \o f

InitJoin ==
    /\ schema \in JoinSchemas
    /\ data = [n \in Names |-> <<>>]
    /\ db = "None"
    /\ faults = 0
    /\ tables = PyNone
    /\ attrs = [n \in Names |-> <<>>]
    /\ last = [op |-> "init", name |-> "", new |-> "", wasOpen |-> FALSE,
               raised |-> "none", ret |-> PyNone, sent |-> <<>>, conns |-> 0,
               wrote |-> {}, changed |-> {}]

\* db.<name>.join(db.<tbl>, on=..., alias=..., direction=...)
JoinTables ==
    \E name \in Names, direction \in Directions, alias \in Aliases :
      \E tbl \in Names, f \in {"id", "val"} :
        /\ attrs[name] # <<>> /\ attrs[tbl] # <<>>
        /\ attrs[name][1].cols.shape = "list" /\ attrs[tbl][1].cols.shape = "list"
        /\ Len(attrs[name][1].cols.rows) + Len(attrs[tbl][1].cols.rows) <= MaxCols
        /\ Call("join", name,
                [tbl |-> tbl, on |-> On(name, tbl, f), alias |-> alias, direction |-> direction],
                join(Cur, name, tbl, On(name, tbl, f), alias, direction))

NextJoin ==
    \/ Connect
    \/ Close
    \/ JoinTables

SpecJoin == InitJoin /\ [][NextJoin]_vars

----------------------------------------------------------------------------
(* alter_column with its arguments kept *)

Definitions == {"INT", "TEXT"}
Renames == NewNames \cup {"c"}

AlterColumnAs ==
    \E name \in Altered, field \in ColNames, definition \in Definitions :
      \E new_name \in Renames, alter_class \in BOOLEAN :
        Call("alter_column", name,
             [field |-> field, definition |-> definition, new_name |-> new_name],
             alter_column(Cur, name, field, definition, new_name, alter_class))

NextAlter ==
    \/ Connect
    \/ Close
    \/ AlterColumnAs

SpecAlter == Init /\ [][NextAlter]_vars

----------------------------------------------------------------------------
(* make_table and drop_table with their keyword arguments: the call is      *)
(* logged with the arguments given.  Every table is a permanent one: the    *)
(* tables are made with temp=False.                                         *)

MakeTableAs ==
    \E name \in Names, fields \in FieldLists, clobber \in BOOLEAN, mk_class \in BOOLEAN :
        Call("make_table", name, [fields |-> fields, clobber |-> clobber],
             make_table(Cur, name, fields, clobber, mk_class))

DropTableAs ==
    \E name \in Names, temp \in BOOLEAN, rm_class \in BOOLEAN :
        Call("drop_table", name, [temp |-> temp], drop_table(Cur, name, temp, rm_class))

NextTables ==
    \/ Connect
    \/ Close
    \/ MakeTableAs
    \/ DropTableAs

SpecTables == Init /\ [][NextTables]_vars

Commit == Call("commit", "", "", commit(Cur))

Rollback == Call("rollback", "", "", rollback(Cur))

TruncateTable ==
    \E name \in Names :
        Call("truncate_table", name, "", truncate_table(Cur, name))

AddFk ==
    \E table \in Names :
      \E ref \in Names \ {table} :
        Call("add_fk", table, ref, add_fk(Cur, "k", table, "a", ref))

DropFk ==
    \E table \in Names, held \in BOOLEAN :
        Call("drop_fk", table, "", drop_fk(Cur, "k", table, held))

\* the lifecycle of the connection, the methods that keep the registry, and
\* the DDL methods called on a Database that is not open
NextIdle ==
    \/ Connect
    \/ Close
    \/ Commit
    \/ Rollback
    \/ TruncateTable
    \/ AddFk
    \/ DropFk
    \/ ~open(Cur) /\ MakeTable
    \/ ~open(Cur) /\ DropTable
    \/ ~open(Cur) /\ MoveTable
    \/ ~open(Cur) /\ AddColumn
    \/ ~open(Cur) /\ DropColumn
    \/ ~open(Cur) /\ AlterColumn

SpecIdle == Init /\ [][NextIdle]_vars

----------------------------------------------------------------------------
(* Properties *)

DDLOps == {"make_table", "drop_table", "move_table", "add_column", "drop_column", "alter_column"}

\* the tables of the live schema
Live == {n \in Names : schema[n] # <<>>}

\* the positions of the registry entries called n
Entries(n) == {i \in DOMAIN tables.rows : tables.rows[i].name = n}

NoAccessors == \A n \in Names : attrs[n] = <<>>

Returned == last.raised = "none"

\* Table t describes the live table of its name: cols is the list of its descriptors
Describes(t) == t.cols = PyList(schema[t.name])

\* C1: no statement reaches the driver while the Database is not open; a call of
\* sql_query or query (a Table method) on a Database that is not open raises,
\* sends nothing and changes nothing.
C1_NoStatementWhileClosed ==
    /\ \A i \in DOMAIN last.sent : last.sent[i].open
    /\ (last.op \in {"sql_query", "query"} /\ ~last.wasOpen)
          => (last.raised = "Exception" /\ last.sent = <<>> /\ last.changed = {})

\* Table.count() was called for a live table while the Database was not open
C1_Witness ==
    /\ last.op = "query" /\ ~last.wasOpen /\ last.raised = "Exception"
    /\ schema[last.name] # <<>>
    /\ tables = PyNone /\ db = "None"

\* C2: connect on an open Database opens no connection, sends no statement and
\* changes nothing; close on a Database that is not open sends nothing, raises
\* nothing and changes nothing.
C2_LifecycleIdempotent ==
    /\ (last.op = "connect" /\ last.wasOpen)
          => (Returned /\ last.conns = 0 /\ last.sent = <<>> /\ last.changed = {})
    /\ (last.op = "close" /\ ~last.wasOpen)
          => (Returned /\ last.conns = 0 /\ last.sent = <<>> /\ last.changed = {})

\* connect was called on an open Database that had discovered two tables
C2_Witness ==
    /\ last.op = "connect" /\ last.wasOpen
    /\ Len(table_names(Cur)) = 2 /\ faults = 0

\* C3: close on an open Database returns with the connection closed, tables None
\* and no table accessor left, whatever the number of live tables.
C3_CloseDetaches ==
    (last.op = "close" /\ last.wasOpen)
        => (Returned /\ db = "None" /\ tables = PyNone /\ table_names(Cur) = <<>> /\ NoAccessors)

\* C4: connect on a Database that is not open leaves it open with one registry
\* entry per live table, in discovery order, each the accessor of its name.
C4_ConnectDiscovers ==
    (last.op = "connect" /\ ~last.wasOpen)
        => /\ Returned /\ db = "conn"
           /\ table_names(Cur) = Present(schema)
           /\ \A i \in DOMAIN tables.rows : attrs[tables.rows[i].name] = << tables.rows[i] >>

\* C5: after every DDL call on an open Database the names of the registry are the
\* tables of the live schema, and a column dropped by drop_column is not among
\* the col_names of the table's registry entry.
C5_RegistrySync ==
    (last.op \in DDLOps /\ last.wasOpen)
        => /\ Range(table_names(Cur)) = Live
           /\ (last.op = "drop_column" /\ Returned)
                 => \A i \in Entries(last.name) :
                       /\ ~col_names_raises(tables.rows[i])
                       /\ last.new \notin Range(col_names(tables.rows[i]))

\* C6: a DDL call that raises has changed neither the live schema nor the
\* registry nor the accessors.
C6_DDLAtomic ==
    (last.op \in DDLOps /\ last.wasOpen /\ ~Returned) => last.changed = {}

\* C7: after move_table(old, new) returns, old is not in the registry, new is
\* there once, old has no accessor, and the accessor of new is the registry
\* entry and describes the renamed live table.
C7_MoveTableRegisters ==
    (last.op = "move_table" /\ last.wasOpen /\ Returned)
        => /\ Entries(last.name) = {}
           /\ Cardinality(Entries(last.new)) = 1
           /\ attrs[last.name] = <<>>
           /\ \A i \in Entries(last.new) :
                 attrs[last.new] = << tables.rows[i] >> /\ Describes(tables.rows[i])

\* C8: after add_column, drop_column or alter_column on table name returns, the
\* registry holds one entry called name, which is the accessor of that name and
\* whose column names are the live column names.
C8_AlterRegisters ==
    (last.op \in {"add_column", "drop_column", "alter_column"} /\ last.wasOpen /\ Returned)
        => /\ Cardinality(Entries(last.name)) = 1
           /\ \A i \in Entries(last.name) :
                 /\ attrs[last.name] = << tables.rows[i] >>
                 /\ ~col_names_raises(tables.rows[i])
                 /\ col_names(tables.rows[i])
                       = [k \in 1..Len(schema[last.name]) |-> schema[last.name][k].Field]

\* the Tables a call registered: all of the registry for connect, the Table
\* returned for a DDL method
Registered ==
    IF last.op = "connect" THEN Range(tables.rows)
    ELSE IF last.ret.shape = "Table" THEN Range(last.ret.rows)
    ELSE {}

\* C9: the cols of every Table registered by connect or by a DDL method is the
\* sequence of the descriptors of the live table's columns (one column
\* included), so col_names does not raise.
C9_ColsIsSequence ==
    (((last.op = "connect" /\ ~last.wasOpen) \/ (last.op \in DDLOps /\ last.wasOpen)) /\ Returned)
        => \A t \in Registered : Describes(t) /\ ~col_names_raises(t)

\* C10 as stated: after remake_class(name) returns on an open Database, the
\* registry entry of name describes the live table.
C10_RemakeRefreshes ==
    (last.op = "remake_class" /\ last.wasOpen /\ Returned)
        => \A i \in Entries(last.name) : Describes(tables.rows[i])

\* C10 as amended: after remake_class(name) returns on an open Database, it has
\* sent one DESCRIBE name and written the class file of name, and the live
\* schema, the registry and the accessors are as before the call.
C10_RemakeKeepsRegistry ==
    (last.op = "remake_class" /\ last.wasOpen /\ Returned)
        => /\ last.changed = {}
           /\ Len(last.sent) = 1 /\ last.sent[1].verb = "DESCRIBE" /\ last.sent[1].tbl = last.name
           /\ last.wrote = {last.name}

\* remake_class returned for a table whose registry entry is stale
C10_Witness ==
    /\ last.op = "remake_class" /\ last.wasOpen /\ Returned
    /\ \E i \in Entries(last.name) : ~Describes(tables.rows[i])

IdleOps ==
    {"commit", "rollback", "truncate_table", "add_fk", "drop_fk"} \cup DDLOps

\* C11: on a Database that is not open, commit, rollback and every DDL method
\* return the Database or None, send nothing to the driver, open no connection
\* and change neither the registry nor the accessors nor the live schema.
C11_IdleWhileClosed ==
    (last.op \in IdleOps /\ ~last.wasOpen)
        => /\ Returned /\ last.ret \in {PySelf, PyNone}
           /\ last.sent = <<>> /\ last.conns = 0 /\ last.wrote = {}
           /\ last.changed = {}

\* make_table was called on a Database that is not open, for a table that
\* the live schema does not hold
C11_Witness ==
    /\ last.op = "make_table" /\ ~last.wasOpen
    /\ schema[last.name] = <<>> /\ Live # {}

----------------------------------------------------------------------------
(* Rows: what select, distinct and count return (SpecRows) *)

\* the rows of the table the last call was about that satisfy its condition,
\* in the order the server holds them
Hits ==
    SelectSeq(data[last.name],
              LAMBDA row : last.new.cond.field = ""
                              \/ row[last.new.cond.field] = last.new.cond.value)

\* the columns the last select or distinct asked for
Asked ==
    IF last.new.fields = PyStr("all") THEN Fields(schema[last.name])
    ELSE {last.new.fields.rows[i].rows[1] : i \in DOMAIN last.new.fields.rows}

\* the last call was op on the open Database and returned
Answered(ops) == last.op \in ops /\ last.wasOpen /\ Returned

C19_InsertRoundTrip ==
    (Answered({"select"}) /\ last.new.cond.field \in Asked /\ Hits # <<>>)
        => \A i \in DOMAIN last.ret.rows :
                last.ret.rows[i][last.new.cond.field] = PyStr(last.new.cond.value)

----------------------------------------------------------------------------
(* Statements: the text handed to the driver (SpecText) *)

\* the last call sent one statement; its text
SentOne == Len(last.sent) = 1
Text == last.sent[1].text

Builders == {"count", "delete", "distinct", "select", "update"}

\* C14: the statement sent by count, delete, distinct, select and update holds
\* no two consecutive spaces and no space before its final ';', whatever clauses
\* are given; select(fields=['a']) without clauses sends 'SELECT a FROM t;'.
C14_NoStraySpaces ==
    /\ (last.op \in Builders /\ SentOne) => (~Has(Text, "  ") /\ ~Has(Text, " ;"))
    /\ (/\ last.op = "select" /\ SentOne /\ last.name = "t"
        /\ last.new = [fields |-> PyList(<<PyStr("a")>>), where |-> "", limit |-> 0,
                       groupby |-> "", orderby |-> ""])
            => Text = "SELECT a FROM t;"

\* C15: the statement sent by distinct is a SELECT DISTINCT that holds
\* 'LIMIT <limit>' when limit is given, 'ORDER BY <orderby>' when orderby is
\* given and 'WHERE <where>' when where is given.
C15_DistinctClauses ==
    (last.op = "distinct" /\ SentOne) =>
        /\ SubSeq(Text, 1, 16) = "SELECT DISTINCT "
        /\ last.new.where # "" => Has(Text, "WHERE " \o last.new.where)
        /\ last.new.limit # 0 => Has(Text, "LIMIT " \o ToString(last.new.limit))
        /\ last.new.orderby # "" => Has(Text, "ORDER BY " \o last.new.orderby)

\* the arguments of the last call of query that the checks are to refuse
BadMethod ==
    \/ last.new.method.shape # "str"
    \/ \A m \in Methods : Lower(last.new.method.rows[1]) # m

IsListOfStr(v) == v.shape = "list" /\ \A i \in DOMAIN v.rows : v.rows[i].shape = "str"

BadFields ==
    /\ ~BadMethod
    /\ \/ /\ Lower(last.new.method.rows[1]) \in {"insert", "update"}
          /\ last.new.fields.shape # "dict"
       \/ /\ Lower(last.new.method.rows[1]) \in {"select", "distinct"}
          /\ last.new.fields # PyStr("all")
          /\ ~IsListOfStr(last.new.fields)

BadExtra ==
    /\ last.new.extra # PyNone
    /\ last.new.extra.shape = "str" => Has(last.new.extra.rows[1], ";")

\* C16: query on an open Database raises, sends no statement and leaves the
\* registry and the connection as they were when method, fields or extra is not
\* valid; with valid arguments it sends exactly one statement.
C16_QueryChecks ==
    (last.op = "query" /\ last.wasOpen) =>
        IF BadMethod \/ BadFields \/ BadExtra
        THEN ~Returned /\ last.sent = <<>> /\ last.changed = {} /\ last.conns = 0
        ELSE SentOne

\* C17: sql_query with an int limit > 0 sends the statement without its final
\* ';', then ' LIMIT ', then the offset and ', ' if offset > 0, then the limit
\* and ';'; with limit <= 0 it sends the statement as given.
C17_LimitRewrite ==
    (/\ last.op = "sql_query" /\ last.wasOpen
     /\ last.new.limit.shape = "int" /\ last.new.offset.shape = "int")
        => /\ SentOne
           /\ LET q == last.new.q
                  n == Len(last.new.q)
                  limit == last.new.limit.rows[1]
                  offset == last.new.offset.rows[1]
                  tail == SubSeq(Text, n, Len(Text))
              IN  IF limit <= 0 THEN Text = q
                  ELSE /\ SubSeq(q, n, n) = ";"
                       /\ SubSeq(Text, 1, n - 1) = SubSeq(q, 1, n - 1)
                       /\ tail = IF offset > 0
                                 THEN " LIMIT " \o ToString(offset) \o ", " \o ToString(limit) \o ";"
                                 ELSE " LIMIT " \o ToString(limit) \o ";"

\* sql_query was called with a limit and an offset that are both positive
C17_Witness ==
    /\ last.op = "sql_query" /\ last.wasOpen /\ SentOne
    /\ last.new.limit = PyInt(2) /\ last.new.offset = PyInt(1)
    /\ Text = "SELECT * FROM t LIMIT 1, 2;"

\* the text the caller gave after the values: extra of insert, where of update
Verbatim ==
    IF last.op = "insert"
    THEN (IF last.new.extra = PyNone THEN "" ELSE " " \o last.new.extra.rows[1])
    ELSE (IF last.new.where = "" THEN "" ELSE " WHERE " \o last.new.where)

\* C18: in the statement of insert and of update every value of fields stands
\* escaped between single quotes, and stands unescaped nowhere unless escaping
\* leaves it as it is; the text of the caller ends the statement unchanged.
C18_EscapingAsymmetry ==
    (last.op \in {"insert", "update"} /\ SentOne) =>
        /\ \A i \in DOMAIN last.new.fields.rows :
              LET k == last.new.fields.rows[i][1]
                  v == last.new.fields.rows[i][2].rows[1]
                  lead == IF last.op = "insert" THEN "" ELSE k \o "="
              IN  /\ Has(Text, lead \o "'" \o escape_string(v) \o "'")
                  /\ escape_string(v) # v => ~Has(Text, "'" \o v \o "'")
        /\ SubSeq(Text, Len(Text) - Len(Verbatim), Len(Text)) = Verbatim \o ";"
        /\ SubSeq(Text, Len(Text) - Len(Verbatim) - 1, Len(Text) - Len(Verbatim) - 1)
              = (IF last.op = "insert" THEN ")" ELSE "'")

\* an update gave a value with a quote and a where with quotes
C18_Witness ==
    /\ last.op = "update" /\ SentOne
    /\ last.new.fields = PyDict(<< <<"a", PyStr("O'B")>>, <<"b", PyStr("x")>> >>)
    /\ last.new.where = "a='x'"
    /\ Text = "UPDATE t SET a='O\\'B',b='x' WHERE a='x';"

----------------------------------------------------------------------------
(* Joins (SpecJoin) *)

\* C20: for discovered tables a and b with the columns id and val, a.join(b,
\* on='a.id=b.id') with direction inner, left or right in any letter case
\* returns a Table named 'a <DIRECTION> JOIN b ON a.id=b.id' whose col_names is
\* ['a.id', 'a.val', 'b.id', 'b.val'].
C20_JoinNaming ==
    (/\ last.op = "join" /\ last.new.alias = "" /\ last.new.tbl # last.name
     /\ Lower(last.new.direction) \in {"inner", "left", "right"})
        => /\ Returned
           /\ last.ret.shape = "Table"
           /\ last.ret.rows[1].name =
                 last.name \o " " \o Upper(last.new.direction) \o " JOIN " \o last.new.tbl
                    \o " ON " \o last.new.on
           /\ col_names(last.ret.rows[1]) =
                 << last.name \o ".id", last.name \o ".val",
                    last.new.tbl \o ".id", last.new.tbl \o ".val" >>

\* C21: a join whose direction is not inner, left or right returns None, sends
\* no statement and leaves the registry, the accessors and with them the
\* columns of both Tables as they were.
C21_BadDirection ==
    (last.op = "join" /\ Lower(last.new.direction) \notin {"inner", "left", "right"})
        => /\ Returned /\ last.ret = PyNone
           /\ last.sent = <<>> /\ last.conns = 0
           /\ last.changed = {}

\* a join with direction 'outer' was called on two discovered tables
C21_Witness ==
    /\ last.op = "join" /\ last.new.direction = "outer" /\ last.new.tbl # last.name
    /\ tables.shape = "list" /\ Len(tables.rows) = 2
    /\ col_names(attrs[last.name][1]) = <<"id", "val">>

\* C22: a join that returns a Table changes neither the registry nor the
\* columns of the Tables joined, so that every column of the Table returned,
\* also of a join repeated and of a table joined with itself, is qualified once.
C22_JoinChangesNothing ==
    (last.op = "join" /\ Returned /\ last.ret.shape = "Table")
        => /\ last.changed = {}
           /\ col_names(last.ret.rows[1]) =
                 << last.name \o ".id", last.name \o ".val",
                    last.new.tbl \o ".id", last.new.tbl \o ".val" >>

----------------------------------------------------------------------------
(* alter_column (SpecAlter) *)

\* the name the column is to have after alter_column
Target == IF last.new.new_name = "" THEN last.new.field ELSE last.new.new_name

\* C23: after alter_column(name, field, definition, new_name) returns on an open
\* Database, the column has the definition given and is called field when
\* new_name is '', new_name otherwise, and col_names of the Table returned is
\* the list of the live column names.
C23_AlterColumn ==
    (last.op = "alter_column" /\ last.wasOpen /\ Returned)
        => /\ Target \in Fields(schema[last.name])
           /\ TypeOf(schema[last.name], Target) = last.new.definition
           /\ Target # last.new.field => last.new.field \notin Fields(schema[last.name])
           /\ last.ret.shape = "Table"
           /\ ~col_names_raises(last.ret.rows[1])
           /\ col_names(last.ret.rows[1])
                 = [k \in 1..Len(schema[last.name]) |-> schema[last.name][k].Field]


\* the table of the last call has one registry entry, which describes the live table
OneEntry ==
    /\ Cardinality(Entries(last.name)) = 1
    /\ \A i \in Entries(last.name) : Describes(tables.rows[i])

\* C24: make_table(name, fields, clobber=True) on a table that exists overwrites
\* it: the call returns, the live table has the columns of fields and its one
\* registry entry describes it; with clobber=False the table that exists is
\* left as it is and its one registry entry describes it.
C24_MakeTableClobber ==
    [][ (last'.op = "make_table" /\ last'.wasOpen /\ schema[last'.name] # <<>>)
            => IF last'.new.clobber
               THEN (Returned /\ schema[last.name] = last.new.fields /\ OneEntry)'
               ELSE schema'[last'.name] = schema[last'.name] /\ (Returned /\ OneEntry)' ]_vars


\* C30: after drop_table(name, temp) returns on an open Database, name is absent
\* from table_names and from the accessors exactly when no table called name
\* remains in the live schema, with temp=False and with temp=True.
C30_DropTableTracksSchema ==
    (last.op = "drop_table" /\ last.wasOpen /\ Returned)
        => ((Entries(last.name) = {} /\ attrs[last.name] = <<>>) <=> last.name \notin Live)


\* C28: a connect() that raises leaves the Database not open and without
\* accessors, so the next connect() runs the discovery again (it sends
\* SHOW TABLES).
C28_FailedConnectNotOpen ==
    [][ /\ (last'.op = "connect" /\ last'.raised # "none")
            => (db' = "None" /\ NoAccessors')
        /\ (last.op = "connect" /\ last.raised # "none" /\ last'.op = "connect")
            => (last'.sent # <<>> /\ last'.sent[1].verb = "SHOW TABLES") ]_vars


BadArgument ==
    \/ last.new.limit.shape # "int"
    \/ last.new.offset.shape # "int"
    \/ last.new.maxrows.shape # "int"
    \/ (last.new.maxrows.shape = "int" /\ last.new.maxrows.rows[1] < 0)

\* C29: when sql_query raises TypeError or ValueError because of an argument
\* (q, limit, offset, maxrows, how), no statement has been sent.
C29_RejectedBeforeSending ==
    (last.op = "sql_query" /\ last.raised \in {"TypeError", "ValueError"} /\ BadArgument)
        => last.sent = <<>>


\* the rows of `users` stored for the username of the last call
StoredRows == SelectSeq(data[users], LAMBDA row : row.username = last.new.username)

\* C25: signup on an open Database whose users table has no row for username
\* inserts one row and returns ''; signup with a username that is stored does
\* not raise, returns a non-empty error string and leaves the table unchanged.
C25_Signup ==
    [][ (last'.op = "signup" /\ last'.wasOpen)
            => IF \E i \in DOMAIN data[users] : data[users][i].username = last'.new.username
               THEN /\ last'.raised = "none"
                    /\ last'.ret.shape = "str" /\ last'.ret.rows[1] # ""
                    /\ data' = data
               ELSE /\ last'.raised = "none"
                    /\ last'.ret = PyStr("")
                    /\ Len(data'[users]) = Len(data[users]) + 1
                    /\ Len(StoredRows') = 1 ]_vars

\* C26: login on an open Database does not raise and sends one SELECT and
\* nothing else; with a stored username and a wrong password it returns
\* ({}, 'Incorrect password.'), with the right password the stored row and ''.
C26_Login ==
    (last.op = "login" /\ last.wasOpen)
        => /\ Returned
           /\ Len(last.sent) = 1 /\ last.sent[1].verb = "SELECT"
           /\ StoredRows # <<>>
                => IF verify(last.new.password, StoredRows[1].password)
                   THEN /\ last.ret.rows[1].shape = "dict"
                        /\ last.ret.rows[1].rows
                              = << [f \in DOMAIN StoredRows[1] |-> PyStr(StoredRows[1][f])] >>
                        /\ last.ret.rows[2] = PyStr("")
                   ELSE last.ret = PyTuple(<< PyDict(<<>>), PyStr("Incorrect password.") >>)

====
